---- MODULE Spec2Model ----
(***************************************************************************)
(* The mask store of backend/app.py: one (image, query) namespace          *)
(* directory holding mask array files and the metadata index               *)
(* mask_metadata.json, and the /save, /delete and /masks handlers that     *)
(* work on it.  FastAPI runs the handlers (plain def) on a thread pool,    *)
(* so requests interleave at their file-system calls; each file-system     *)
(* call is one step.                                                       *)
(***************************************************************************)
EXTENDS Naturals, Sequences, FiniteSets, TLC

\* The worker threads that serve requests.
Procs == {"t1", "t2"}

\* The values random_id() draws from (two names, so that a draw can repeat).
Ids == {"a.npy", "b.npy"}

\* The metadata file of a namespace directory.
MetaName == "mask_metadata.json"

\* The number of requests one run receives.
MaxOps == 4

\* The number of requests a run with overlapping requests receives.
MaxConc == 3

\* The number of directories a run over several namespaces puts masks in.
MaxDirs == 3

\* The number of log and status requests one run receives.
MaxLog == 3

\* The number of lines a log file holds before the first request.
MaxLines == 2

\* The number of log and status requests a run on such a file receives.
MaxReplay == 2

\* The number of requests of any kind a run of the whole service receives.
MaxAny == 3

\* The number of mask paths one combined thumbnail is made of.
MaxMasks == 3

VARIABLES
    files,     \* the mask array files present in the namespace directory
    corrupt,   \* the files among them that np.load cannot read (np.save cut short)
    meta,      \* mask_metadata.json: absent, truncated (opened "w"), or a json list
    pc,        \* each thread's position in its handler
    arg,       \* each thread's mask_name (save: the drawn name, delete: req.mask_name)
    names,     \* each thread's local list `names`
    cur,       \* list_masks: how many of `names` the loop has visited
    items,     \* list_masks: the names of the items collected so far / returned
    paths,     \* list_masks: mask_paths, the names whose file was there when visited
    combined,  \* list_masks: the masks the combined thumbnail layers, in order
    result,    \* the status of the thread's last response
    nOps,      \* requests received so far
    base,      \* history: what load_meta gave when the running batch of requests began
    batch,     \* history: the requests begun since the store was last idle, in order
    prev,      \* history: the request that ran before the current batch
    intr,      \* history: the requests a process kill interrupted, with their positions
    expected,  \* history: ids saved and not deleted since, in the order of saving
    held,      \* history: per running list, the values the index held since it began
    committed, \* history: the last list a completed write of the index put there
    nsStore,   \* MASK_DIR: per directory name, the index and the files it holds
    nsPrev,    \* history: nsStore before the latest save or delete
    nsReq,     \* history: the latest save or delete and its (image_name, query_id)
    logs,      \* LOGS_DIR: per log file, its lines
    jpc,       \* each thread's position in log_action / get_status
    jreq,      \* each thread's log or status request
    jpos,      \* append_log: the end of the file when the thread opened it
    jres,      \* the status of the thread's last log or status response
    proj,      \* get_status: what load_processed returned
    nLog,      \* log and status requests received so far
    accepted,  \* history: per chunk, the events of the log requests that passed validation
    written,   \* history: per chunk, the events append_log wrote, in the order of writing
    seen,      \* history: per status request, the file and `written` when it read
    overlapped, \* history: the chunks that had two appends between open and write at once
    found,     \* history: the lines the log files held at start
    cpaths,    \* make_combined_thumbnail: mask_paths; per path, whether np.load
               \* reads it and whether its mask is set at the pixel looked at
    cmasks,    \* make_combined_thumbnail: masks, each with the place of its path
    ccolors,   \* make_combined_thumbnail: colors
    overlay,   \* make_combined_thumbnail: the pixel of overlay, as its layers bottom to top
    ck,        \* make_combined_thumbnail: the turns its running loop has made
    cpc        \* make_combined_thumbnail: the position in the function

storeVars == <<files, corrupt, meta, pc, arg, names, cur, items, paths, combined,
               result, nOps, base, batch, prev, intr, expected, held, committed>>

nsVars == <<nsStore, nsPrev, nsReq>>

jVars == <<jpc, jreq, jpos, jres, proj, nLog, accepted, written, seen, overlapped, found>>

cVars == <<cpaths, cmasks, ccolors, overlay, ck, cpc>>

vars == <<storeVars, nsVars, logs, jVars, cVars>>

locals == <<arg, names, cur, items, paths, combined>>

----------------------------------------------------------------------------
\* Helpers

\* mask_name of a thread that serves no request; history: no earlier request.
NoName == "none"
NoOp == [op |-> "none", id |-> NoName, p |-> NoName]

\* The elements of a list (mask_name in names).
Range(s) == {s[i] : i \in 1..Len(s)}

\* The three conditions of mask_metadata.json: not there; opened for writing
\* and not yet written (empty, so json.load fails); a json list of names.
MetaAbsent == [st |-> "absent", names |-> <<>>]
MetaTruncated == [st |-> "truncated", names |-> <<>>]
MetaJson(l) == [st |-> "json", names |-> l]

\* load_meta: the parsed list, or [] when the file is missing or does not parse.
load_meta(m) == IF m.st = "json" THEN m.names ELSE <<>>

Index == load_meta(meta)
IndexSet == Range(Index)

\* Variant: the name is appended without the test of line 104.
AppendNameAlways(l, n) == Append(l, n)
\* Variant: a new name is put at the front of the list.
AppendNameFront(l, n) == IF n \in Range(l) THEN l ELSE <<n>> \o l
\* update_metadata, lines 104-105: append the name unless it is there.
AppendName(l, n) == IF n \in Range(l) THEN l ELSE Append(l, n)

\* delete, line 295: the names other than mask_name, in order.
RemoveName(l, n) == SelectSeq(l, LAMBDA e : e # n)

\* chunk_id and index values of the log requests; action values, one of
\* them not allowed.
ChunkIds == {1, 2}
Indexes == {1, 2}
Actions == {"done", "skip", "undo"}

\* _log_path: the file chunk_{chunk_id}.jsonl under LOGS_DIR.
log_path(chunk_id) == <<"chunk_", chunk_id, ".jsonl">>
LogPaths == {log_path(c) : c \in ChunkIds}

\* A mask_name that os.path.join(mdir, mask_name) resolves to the log file of
\* chunk c: MASK_DIR is ROOT/../public/masks, LOGS_DIR is ROOT/../logs.
LogName(c) == IF c = 1 THEN "../../../logs/chunk_1.jsonl" ELSE "../../../logs/chunk_2.jsonl"
LogNames == {LogName(c) : c \in ChunkIds}
PathOf(n) == log_path(CHOOSE c \in ChunkIds : LogName(c) = n)

\* os.path.exists(os.path.join(mdir, n)).  A log file is taken to be there
\* when it has a line.
Exists(n) ==
    IF n = MetaName THEN meta.st # "absent"
    ELSE IF n \in LogNames THEN logs[PathOf(n)] # <<>>
    ELSE n \in files

\* np.load(os.path.join(mdir, n)) returns an array.
Loads(n) == n \in files \ corrupt

\* Variant: a file that is there gives an item whether or not it loads.
ScanKeepPresent(present, loads) == present
\* list_masks, lines 274-282: a name gives an item when its file is there
\* (274) and np.load reads it (277-280).
ScanKeep(present, loads) == present /\ loads

\* Variant: update_metadata is called before np.save.
SaveNextIndexFirst(l) ==
    CASE l = "s_start" -> "s_load"
      [] l = "s_load" -> "s_open"
      [] l = "s_open" -> "s_write"
      [] l = "s_write" -> "s_npopen"
      [] l = "s_npopen" -> "s_npsave"
      [] OTHER -> "idle"
\* The order of save's steps: np.save (251), which opens the file and then
\* writes the array; then update_metadata (253): load_meta, open(path, "w"),
\* json.dump and close; then the response.
SaveNext(l) ==
    CASE l = "s_start" -> "s_npopen"
      [] l = "s_npopen" -> "s_npsave"
      [] l = "s_npsave" -> "s_load"
      [] l = "s_load" -> "s_open"
      [] l = "s_open" -> "s_write"
      [] OTHER -> "idle"

\* Variant: os.remove is called without the test of line 293.
DeleteEntryNoCheck(present) == "d_remove"
\* delete, lines 293-294: os.remove only when the file exists.
DeleteEntry(present) == IF present THEN "d_remove" ELSE "d_load"

\* The order of delete's steps after the test: os.remove (294), load_meta
\* (295), save_meta's open and dump (296), the response (297).
DeleteNext(l) ==
    CASE l = "d_remove" -> "d_load"
      [] l = "d_load" -> "d_open"
      [] l = "d_open" -> "d_write"
      [] OTHER -> "idle"

IsSavePc(l) == l \in {"s_npopen", "s_npsave", "s_load", "s_open", "s_write"}
IsDeletePc(l) == l \in {"d_remove", "d_load", "d_open", "d_write"}
IsListPc(l) == l \in {"l_load", "l_scan"}

\* No request is being served.
Quiescent == \A p \in Procs : pc[p] = "idle"

----------------------------------------------------------------------------
\* Namespaces

\* query_id values, and image_name values as strings of characters.
QueryIds == {1, 2}
ImageNames == {<<"c", ".", "p">>, <<"c", ".", "j">>, <<"d", ".", "p">>,
               <<"c", "_", "1">>, <<".", "p">>}

\* os.path.splitext: the name is cut at its last dot, unless only dots
\* come before it; the result is (root, ext).
splitext(s) ==
    LET dots == {i \in 1..Len(s) : s[i] = "." /\ \E j \in 1..(i - 1) : s[j] # "."}
    IN IF dots = {} THEN <<s, <<>>>>
       ELSE LET d == CHOOSE i \in dots : \A k \in dots : k <= i
            IN <<SubSeq(s, 1, d - 1), SubSeq(s, d, Len(s))>>

\* str(query_id) inside the f-string of line 83.
Str(q) == IF q = 1 THEN <<"1">> ELSE <<"2">>

\* mask_dir_for: the directory name f"{base}_{query_id}" under MASK_DIR.
mask_dir_for(image_name, query_id) == splitext(image_name)[1] \o <<"_">> \o Str(query_id)

\* The directories the requests can name, and a directory as makedirs leaves it.
Dirs == {mask_dir_for(i, q) : i \in ImageNames, q \in QueryIds}
EmptyDir == [index |-> <<>>, files |-> {}]
NoReq == [op |-> "none", image |-> <<>>, query |-> 0, id |-> NoName]

----------------------------------------------------------------------------
\* The journal

\* obj.get(...) gives None: the field is missing.
Absent == 0

\* The lines a log file can hold, by what json.loads makes of them: an
\* object with its chunk_id, index and action fields; text that does not
\* parse (garbage, or a line cut short); a json value that is no object.
Event(c, i, a) == [t |-> "object", chunk_id |-> c, index |-> i, action |-> a]
TextLine == [t |-> "text", chunk_id |-> Absent, index |-> Absent, action |-> "none"]
ValueLine == [t |-> "value", chunk_id |-> Absent, index |-> Absent, action |-> "none"]

\* The line append_log writes for a request: json.dumps of the entry.
EntryLine(req) == Event(req.chunk_id, req.index, req.action)

\* Variant: every action passes.
ValidActionAny(a) == TRUE
\* log_action, line 304
ValidAction(a) == a \in {"done", "skip"}

\* Variant: the line is written at the position the file had when opened.
AppendAtPos(content, pos, line) == SubSeq(content, 1, pos) \o <<line>>
\* append_log, lines 202-203: the file is opened with "a", so the write
\* goes to the end of the file wherever it is by then.
AppendAt(content, pos, line) == content \o <<line>>

\* Variant: lines of every chunk are taken.
SameChunkAny(field, chunk_id) == TRUE
\* load_processed, line 220
SameChunk(field, chunk_id) == field = chunk_id

\* Variant: the first action of an index stays.
PutIfAbsent(results, idx, act) ==
    IF results[idx] = "none" THEN [results EXCEPT ![idx] = act] ELSE results
\* load_processed, line 225: results[idx] = act
Put(results, idx, act) == [results EXCEPT ![idx] = act]

\* The empty dict of line 211; "none" stands for an index without a key.
NoResults == [i \in Indexes |-> "none"]

\* load_processed, lines 214-226: the loop over the lines.  json.loads
\* failing is caught (216-219); obj.get on a value that is no object raises
\* outside the try.
RECURSIVE ReadLines(_, _, _)
ReadLines(lines, chunk_id, results) ==
    IF lines = <<>> THEN [raised |-> FALSE, results |-> results]
    ELSE LET obj == Head(lines)
         IN IF obj.t = "text" THEN ReadLines(Tail(lines), chunk_id, results)
            ELSE IF obj.t = "value" THEN [raised |-> TRUE, results |-> results]
            ELSE IF ~SameChunk(obj.chunk_id, chunk_id)
                   THEN ReadLines(Tail(lines), chunk_id, results)
            ELSE IF obj.index # Absent /\ obj.action \in {"done", "skip"}
                   THEN ReadLines(Tail(lines), chunk_id, Put(results, obj.index, obj.action))
            ELSE ReadLines(Tail(lines), chunk_id, results)

\* load_processed: a missing file gives {} (212-213), as an empty one does.
load_processed(chunk_id) == ReadLines(logs[log_path(chunk_id)], chunk_id, NoResults)

NoLogReq == [kind |-> "none", chunk_id |-> Absent, index |-> Absent, action |-> "none"]
NoSeen == [file |-> <<>>, appends |-> <<>>]

\* No log or status request is being served.
JQuiescent == \A p \in Procs : jpc[p] = "idle"

\* The threads serve no log or status request, and nothing was logged.
JInit ==
    /\ jpc = [p \in Procs |-> "idle"]
    /\ jreq = [p \in Procs |-> NoLogReq]
    /\ jpos = [p \in Procs |-> 0]
    /\ jres = [p \in Procs |-> "none"]
    /\ proj = [p \in Procs |-> NoResults]
    /\ nLog = 0
    /\ accepted = [c \in ChunkIds |-> <<>>]
    /\ written = [c \in ChunkIds |-> <<>>]
    /\ seen = [p \in Procs |-> NoSeen]
    /\ overlapped = {}

\* The mask store at start: an empty namespace directory, as mask_dir_for
\* creates it, and MASK_DIR without masks.
StoreInit ==
    /\ nsStore = [d \in Dirs |-> EmptyDir]
    /\ nsPrev = [d \in Dirs |-> EmptyDir]
    /\ nsReq = NoReq
    /\ files = {}
    /\ corrupt = {}
    /\ meta = MetaAbsent
    /\ pc = [p \in Procs |-> "idle"]
    /\ arg = [p \in Procs |-> NoName]
    /\ names = [p \in Procs |-> <<>>]
    /\ cur = [p \in Procs |-> 0]
    /\ items = [p \in Procs |-> <<>>]
    /\ paths = [p \in Procs |-> <<>>]
    /\ combined = [p \in Procs |-> <<>>]
    /\ result = [p \in Procs |-> "none"]
    /\ nOps = 0
    /\ base = <<>>
    /\ batch = <<>>
    /\ prev = NoOp
    /\ intr = {}
    /\ expected = <<>>
    /\ held = [p \in Procs |-> {}]
    /\ committed = <<>>

\* No combined thumbnail is being made.
CInit ==
    /\ cpaths = <<>>
    /\ cmasks = <<>>
    /\ ccolors = <<>>
    /\ overlay = <<>>
    /\ ck = 0
    /\ cpc = "idle"

\* Start of the server on an empty MASK_DIR and an empty LOGS_DIR (24-25).
Init ==
    /\ StoreInit
    /\ JInit
    /\ CInit
    /\ logs = [f \in LogPaths |-> <<>>]
    /\ found = logs

\* A request arrives at thread p.
Begin(p, kind, n) ==
    /\ pc[p] = "idle"
    /\ nOps < MaxOps
    /\ nOps' = nOps + 1
    /\ intr' = {}
    /\ result' = [result EXCEPT ![p] = "pending"]
    /\ arg' = [arg EXCEPT ![p] = n]
    /\ names' = [names EXCEPT ![p] = <<>>]
    /\ cur' = [cur EXCEPT ![p] = 0]
    /\ items' = [items EXCEPT ![p] = <<>>]
    /\ paths' = [paths EXCEPT ![p] = <<>>]
    /\ combined' = [combined EXCEPT ![p] = <<>>]
    /\ IF Quiescent
         THEN /\ base' = Index
              /\ batch' = <<[op |-> kind, id |-> n, p |-> p]>>
              /\ prev' = IF batch = <<>> \/ intr # {} THEN NoOp ELSE batch[Len(batch)]
         ELSE /\ base' = base
              /\ batch' = Append(batch, [op |-> kind, id |-> n, p |-> p])
              /\ prev' = prev

\* history: what a request means for the collection in the contract's words:
\* a save adds its id at the end (an id is in the collection once), a delete
\* takes its id out, a list changes nothing.
Serial(l, o) ==
    IF o.op = "save" THEN (IF o.id \in Range(l) THEN l ELSE l \o <<o.id>>)
    ELSE IF o.op = "delete" THEN SelectSeq(l, LAMBDA e : e # o.id)
    ELSE l

\* Thread p moves to position nxt; at "idle" its response res is sent.
Goto(p, nxt, res) ==
    /\ pc' = [pc EXCEPT ![p] = nxt]
    /\ IF nxt = "idle"
         THEN /\ result' = [result EXCEPT ![p] = res]
              /\ expected' =
                    IF IsSavePc(pc[p]) /\ res = "ok"
                      THEN Serial(expected, [op |-> "save", id |-> arg[p]])
                    ELSE IF IsDeletePc(pc[p]) /\ res = "deleted"
                      THEN Serial(expected, [op |-> "delete", id |-> arg[p]])
                    ELSE expected
         ELSE UNCHANGED <<result, expected>>

\* history: the index takes the value l, and the lists that are running see it.
Holds(l) ==
    /\ committed' = l
    /\ held' = [q \in Procs |-> IF IsListPc(pc[q]) THEN held[q] \cup {l} ELSE held[q]]

\* history variables that only the arrival of a request and a kill change
Ghost == <<nOps, base, batch, prev, intr>>

\* save, lines 248-250: the name is drawn; nothing checks it against the directory.
SaveStart(p, n) ==
    /\ Begin(p, "save", n)
    /\ pc' = [pc EXCEPT ![p] = SaveNext("s_start")]
    /\ UNCHANGED <<files, corrupt, logs, meta, expected, held, committed>>

\* save, line 251: np.save(out_path, mask_np) opens the file for writing;
\* until the array is written there is nothing np.load can read.
SaveOpenArray(p) ==
    /\ pc[p] = "s_npopen"
    /\ files' = files \cup {arg[p]}
    /\ corrupt' = corrupt \cup {arg[p]}
    /\ Goto(p, SaveNext(pc[p]), "ok")
    /\ UNCHANGED <<logs, meta, locals, held, committed, Ghost>>

\* save, line 251: np.save writes the array and closes the file.
SaveWriteArray(p) ==
    /\ pc[p] = "s_npsave"
    /\ files' = files \cup {arg[p]}
    /\ corrupt' = corrupt \ {arg[p]}
    /\ Goto(p, SaveNext(pc[p]), "ok")
    /\ UNCHANGED <<logs, meta, locals, held, committed, Ghost>>

\* update_metadata, lines 103-105, and delete, line 295: names is computed from load_meta.
MetaLoad(p) ==
    /\ pc[p] \in {"s_load", "d_load"}
    /\ names' = [names EXCEPT ![p] =
                    IF pc[p] = "s_load" THEN AppendName(load_meta(meta), arg[p])
                    ELSE RemoveName(load_meta(meta), arg[p])]
    /\ Goto(p, IF pc[p] = "s_load" THEN SaveNext(pc[p]) ELSE DeleteNext(pc[p]), "ok")
    /\ UNCHANGED <<files, corrupt, logs, meta, arg, cur, items, paths, combined, held, committed, Ghost>>

\* save_meta, line 99: open(path, "w") truncates the file.
MetaOpen(p) ==
    /\ pc[p] \in {"s_open", "d_open"}
    /\ meta' = MetaTruncated
    /\ Goto(p, IF pc[p] = "s_open" THEN SaveNext(pc[p]) ELSE DeleteNext(pc[p]), "ok")
    /\ UNCHANGED <<files, corrupt, logs, locals, held, committed, Ghost>>

\* save_meta, line 100: json.dump, and the close that flushes it.
MetaWrite(p) ==
    /\ pc[p] \in {"s_write", "d_write"}
    /\ meta' = MetaJson(names[p])
    /\ Holds(names[p])
    /\ IF pc[p] = "s_write" THEN Goto(p, SaveNext(pc[p]), "ok")
                            ELSE Goto(p, DeleteNext(pc[p]), "deleted")
    /\ UNCHANGED <<files, corrupt, logs, locals, Ghost>>

\* delete, lines 291-293: the path is built from req.mask_name and tested.
DeleteStart(p, n) ==
    /\ Begin(p, "delete", n)
    /\ pc' = [pc EXCEPT ![p] = DeleteEntry(Exists(n))]
    /\ UNCHANGED <<files, corrupt, logs, meta, expected, held, committed>>

\* delete, line 294: os.remove(fpath); a missing file raises, and the handler
\* answers {"error": ...} without touching the index (298-299).
DeleteRemove(p) ==
    /\ pc[p] = "d_remove"
    /\ IF Exists(arg[p])
         THEN /\ IF arg[p] = MetaName
                   THEN /\ meta' = MetaAbsent
                        /\ files' = files
                        /\ Holds(<<>>)
                   ELSE /\ files' = files \ {arg[p]}
                        /\ UNCHANGED <<meta, held, committed>>
              /\ corrupt' = corrupt \ {arg[p]}
              /\ logs' = IF arg[p] \in LogNames
                           THEN [logs EXCEPT ![PathOf(arg[p])] = <<>>]
                           ELSE logs
              /\ Goto(p, DeleteNext(pc[p]), "deleted")
         ELSE /\ Goto(p, "idle", "error")
              /\ UNCHANGED <<files, corrupt, logs, meta, held, committed>>
    /\ UNCHANGED <<locals, Ghost>>

\* list_masks, line 267
ListStart(p) ==
    /\ Begin(p, "list", NoName)
    /\ pc' = [pc EXCEPT ![p] = "l_load"]
    /\ held' = [held EXCEPT ![p] = {committed}]
    /\ UNCHANGED <<files, corrupt, logs, meta, expected, committed>>

\* list_masks, line 268: names = load_meta(mdir)
ListLoad(p) ==
    /\ pc[p] = "l_load"
    /\ names' = [names EXCEPT ![p] = load_meta(meta)]
    /\ Goto(p, "l_scan", "ok")
    /\ UNCHANGED <<files, corrupt, logs, meta, arg, cur, items, paths, combined, held, committed, Ghost>>

\* list_masks, lines 272-282: one turn of the loop
ListScan(p) ==
    /\ pc[p] = "l_scan"
    /\ cur[p] < Len(names[p])
    /\ cur' = [cur EXCEPT ![p] = cur[p] + 1]
    /\ paths' = [paths EXCEPT ![p] =
                    IF Exists(names[p][cur[p] + 1])
                      THEN Append(paths[p], names[p][cur[p] + 1])
                      ELSE paths[p]]
    /\ items' = [items EXCEPT ![p] =
                    IF ScanKeep(Exists(names[p][cur[p] + 1]), Loads(names[p][cur[p] + 1]))
                      THEN Append(items[p], names[p][cur[p] + 1])
                      ELSE items[p]]
    /\ UNCHANGED <<files, corrupt, logs, meta, pc, arg, names, combined, result, expected,
                   held, committed, Ghost>>

\* list_masks, lines 284-286: the combined thumbnail and the response.
\* make_combined_thumbnail (162-170) loads each of mask_paths again and
\* leaves out those that do not load.
ListEnd(p) ==
    /\ pc[p] = "l_scan"
    /\ cur[p] = Len(names[p])
    /\ combined' = [combined EXCEPT ![p] = SelectSeq(paths[p], Loads)]
    /\ Goto(p, "idle", "ok")
    /\ held' = [held EXCEPT ![p] = {}]
    /\ UNCHANGED <<files, corrupt, logs, meta, arg, names, cur, items, paths, committed, Ghost>>

\* The server process is killed: every request in flight stops where it is;
\* the directory stays as it is.
Crash ==
    /\ ~Quiescent
    /\ intr' = {[op |-> pc[p], id |-> arg[p], p |-> p] : p \in {q \in Procs : pc[q] # "idle"}}
    /\ pc' = [p \in Procs |-> "idle"]
    /\ arg' = [p \in Procs |-> NoName]
    /\ names' = [p \in Procs |-> <<>>]
    /\ cur' = [p \in Procs |-> 0]
    /\ items' = [p \in Procs |-> <<>>]
    /\ paths' = [p \in Procs |-> <<>>]
    /\ combined' = [p \in Procs |-> <<>>]
    /\ result' = [p \in Procs |-> "none"]
    /\ held' = [p \in Procs |-> {}]
    /\ UNCHANGED <<files, corrupt, logs, meta, nOps, base, batch, prev, expected, committed>>

Step(p) ==
    \/ SaveOpenArray(p)
    \/ SaveWriteArray(p)
    \/ MetaLoad(p)
    \/ MetaOpen(p)
    \/ MetaWrite(p)
    \/ DeleteRemove(p)
    \/ ListLoad(p)
    \/ ListScan(p)
    \/ ListEnd(p)

Start(p) ==
    \/ \E n \in Ids : SaveStart(p, n)
    \/ \E n \in Ids : DeleteStart(p, n)
    \/ ListStart(p)

\* Requests interleave, and the process can be killed.
Next ==
    \/ \E p \in Procs : nOps < MaxConc /\ Start(p) /\ UNCHANGED <<nsVars, jVars, cVars>>
    \/ \E p \in Procs : Step(p) /\ UNCHANGED <<nsVars, jVars, cVars>>
    \/ Crash /\ UNCHANGED <<nsVars, jVars, cVars>>

Spec == Init /\ [][Next]_vars

\* One request at a time, each run to its response.
NextSeq ==
    \/ \E p \in Procs : Quiescent /\ Start(p) /\ UNCHANGED <<nsVars, jVars, cVars>>
    \/ \E p \in Procs : Step(p) /\ UNCHANGED <<nsVars, jVars, cVars>>

SpecSeq == Init /\ [][NextSeq]_vars

\* One request at a time; the process can be killed during a request.
NextCrash ==
    \/ \E p \in Procs : Quiescent /\ Start(p) /\ UNCHANGED <<nsVars, jVars, cVars>>
    \/ \E p \in Procs : Step(p) /\ UNCHANGED <<nsVars, jVars, cVars>>
    \/ Crash /\ UNCHANGED <<nsVars, jVars, cVars>>

SpecCrash == Init /\ [][NextCrash]_vars

----------------------------------------------------------------------------
\* Several namespaces: requests one at a time, each a whole handler.

NsCount == Cardinality({d \in Dirs : nsStore[d] # EmptyDir})

\* save (241-256) on the directory mask_dir_for gives: np.save, update_metadata.
NsSave(image_name, query_id, n) ==
    LET mdir == mask_dir_for(image_name, query_id)
    IN /\ nsStore' = [nsStore EXCEPT ![mdir] =
                         [index |-> AppendName(@.index, n), files |-> @.files \cup {n}]]
       /\ nsPrev' = nsStore
       /\ nsReq' = [op |-> "save", image |-> image_name, query |-> query_id, id |-> n]

\* delete (288-299) on the directory mask_dir_for gives: os.remove, save_meta.
NsDelete(image_name, query_id, n) ==
    LET mdir == mask_dir_for(image_name, query_id)
    IN /\ nsStore' = [nsStore EXCEPT ![mdir] =
                         [index |-> RemoveName(@.index, n), files |-> @.files \ {n}]]
       /\ nsPrev' = nsStore
       /\ nsReq' = [op |-> "delete", image |-> image_name, query |-> query_id, id |-> n]

NextNs ==
    \/ \E i \in ImageNames, q \in QueryIds, n \in Ids :
          NsCount < MaxDirs /\ NsSave(i, q, n) /\ UNCHANGED <<storeVars, logs, jVars, cVars>>
    \/ \E i \in ImageNames, q \in QueryIds, n \in Ids :
          NsDelete(i, q, n) /\ UNCHANGED <<storeVars, logs, jVars, cVars>>

SpecNs == Init /\ [][NextNs]_vars

----------------------------------------------------------------------------
\* The journal: /log (log_action, append_log) and /status (get_status,
\* load_processed).

\* A log or status request arrives at thread p.
JBegin(p, req) ==
    /\ jpc[p] = "idle"
    /\ nLog < MaxLog
    /\ nLog' = nLog + 1
    /\ jreq' = [jreq EXCEPT ![p] = req]
    /\ jpos' = [jpos EXCEPT ![p] = 0]
    /\ proj' = [proj EXCEPT ![p] = NoResults]
    /\ seen' = [seen EXCEPT ![p] = NoSeen]
    /\ found' = found

\* log_action, lines 304-305: the action is tested before append_log is
\* called; a request that fails the test is answered {"error": ...}.
LogAction(p, c, i, a) ==
    /\ JBegin(p, [kind |-> "append", chunk_id |-> c, index |-> i, action |-> a])
    /\ IF ValidAction(a)
         THEN /\ jpc' = [jpc EXCEPT ![p] = "a_open"]
              /\ jres' = [jres EXCEPT ![p] = "pending"]
              /\ accepted' = [accepted EXCEPT ![c] = Append(@, Event(c, i, a))]
         ELSE /\ jpc' = jpc
              /\ jres' = [jres EXCEPT ![p] = "error"]
              /\ accepted' = accepted
    /\ UNCHANGED <<logs, written, overlapped>>

\* append_log, line 202: open(path, "a")
LogOpen(p) ==
    /\ jpc[p] = "a_open"
    /\ jpos' = [jpos EXCEPT ![p] = Len(logs[log_path(jreq[p].chunk_id)])]
    /\ jpc' = [jpc EXCEPT ![p] = "a_write"]
    /\ overlapped' =
          IF \E q \in Procs \ {p} : jpc[q] = "a_write" /\ jreq[q].chunk_id = jreq[p].chunk_id
            THEN overlapped \cup {jreq[p].chunk_id}
            ELSE overlapped
    /\ UNCHANGED <<logs, jreq, jres, proj, nLog, accepted, written, seen, found>>

\* append_log, line 203, and the close of the with block: the line reaches
\* the file in one write; then log_action answers {"status": "ok"} (313).
LogWrite(p) ==
    /\ jpc[p] = "a_write"
    /\ logs' = [logs EXCEPT ![log_path(jreq[p].chunk_id)] =
                   AppendAt(@, jpos[p], EntryLine(jreq[p]))]
    /\ written' = [written EXCEPT ![jreq[p].chunk_id] = Append(@, EntryLine(jreq[p]))]
    /\ jpc' = [jpc EXCEPT ![p] = "idle"]
    /\ jres' = [jres EXCEPT ![p] = "ok"]
    /\ UNCHANGED <<jreq, jpos, proj, nLog, accepted, seen, overlapped, found>>

\* get_status, line 316
StatusStart(p, c) ==
    /\ JBegin(p, [kind |-> "replay", chunk_id |-> c, index |-> Absent, action |-> "none"])
    /\ jpc' = [jpc EXCEPT ![p] = "r_read"]
    /\ jres' = [jres EXCEPT ![p] = "pending"]
    /\ UNCHANGED <<logs, accepted, written, overlapped>>

\* get_status, lines 317-318: load_processed reads the file; what it raises
\* is not caught, and the request fails.
StatusRead(p) ==
    /\ jpc[p] = "r_read"
    /\ LET r == load_processed(jreq[p].chunk_id)
       IN /\ proj' = [proj EXCEPT ![p] = IF r.raised THEN NoResults ELSE r.results]
          /\ jres' = [jres EXCEPT ![p] = IF r.raised THEN "fail" ELSE "ok"]
    /\ seen' = [seen EXCEPT ![p] = [file |-> logs[log_path(jreq[p].chunk_id)],
                                     appends |-> written[jreq[p].chunk_id]]]
    /\ jpc' = [jpc EXCEPT ![p] = "idle"]
    /\ UNCHANGED <<logs, jreq, jpos, nLog, accepted, written, overlapped, found>>

JStart(p) ==
    \/ \E c \in ChunkIds, i \in Indexes, a \in Actions : LogAction(p, c, i, a)
    \/ \E c \in ChunkIds : StatusStart(p, c)

JStep(p) ==
    \/ LogOpen(p)
    \/ LogWrite(p)
    \/ StatusRead(p)

\* Log and status requests interleave.
NextLog ==
    \/ \E p \in Procs : JStart(p) /\ UNCHANGED <<storeVars, nsVars, cVars>>
    \/ \E p \in Procs : JStep(p) /\ UNCHANGED <<storeVars, nsVars, cVars>>

SpecLog == Init /\ [][NextLog]_vars

\* The lines a log file can hold that no append of this run wrote.
FoundLines == {Event(1, 1, "done"), Event(2, 1, "skip"), Event(1, 1, "undo"),
               Event(1, Absent, "skip"), TextLine, ValueLine}
Contents == UNION {[1..k -> FoundLines] : k \in 0..MaxLines}

\* Start of the server on a LOGS_DIR where the file of chunk 1 has lines.
InitReplay ==
    /\ StoreInit
    /\ JInit
    /\ CInit
    /\ logs \in {f \in [LogPaths -> Contents] : f[log_path(2)] = <<>>}
    /\ found = logs

\* Log and status requests one at a time.
NextLogSeq ==
    \/ \E p \in Procs : nLog < MaxReplay /\ JQuiescent /\ JStart(p)
                           /\ UNCHANGED <<storeVars, nsVars, cVars>>
    \/ \E p \in Procs : JStep(p) /\ UNCHANGED <<storeVars, nsVars, cVars>>

SpecReplay == InitReplay /\ [][NextLogSeq]_vars

----------------------------------------------------------------------------
\* The combined thumbnail: distinct_colors and make_combined_thumbnail, seen
\* at one pixel.

\* The alpha a mask gives the pixels it covers (line 180), and the largest
\* value of an 8-bit channel.
MaskAlpha == 110
Full == 255

\* int(c * 255) for the components of colorsys.hsv_to_rgb(i / n, 0.8, 1.0),
\* in whole numbers: k is the sector of the hue, r / n its fraction f.  In
\* floating point 1.0 - 0.8 falls just short of 0.2, so p, and t where f is
\* 0, come out as 50.  (The result is that of colorsys for n up to 7.)
hsv_to_rgb(i, n) ==
    LET k == (6 * i) \div n
        r == (6 * i) % n
        v == Full
        p == 50
        q == IF r = 0 THEN Full ELSE (Full * (5 * n - 4 * r)) \div (5 * n)
        t == IF r = 0 THEN 50 ELSE (Full * (n + 4 * r)) \div (5 * n)
    IN CASE k = 0 -> <<v, t, p>>
         [] k = 1 -> <<q, v, p>>
         [] k = 2 -> <<p, v, t>>
         [] k = 3 -> <<p, q, v>>
         [] k = 4 -> <<t, p, v>>
         [] OTHER -> <<v, p, q>>

\* distinct_colors, lines 149-156: n colors, the hues i / n for i = 0..n-1.
distinct_colors(n) == [i \in 1..n |-> hsv_to_rgb(i - 1, n)]

\* What mask_paths can be: per path, loads and on.
PathSet == [loads : BOOLEAN, on : BOOLEAN]
PathLists == UNION {[1..k -> PathSet] : k \in 0..MaxMasks}

\* Variant: the new layer goes under the layers that are there.
alpha_compositeUnder(dst, src) == IF src.alpha = 0 THEN dst ELSE <<src>> \o dst
\* Image.alpha_composite(dst, src) at one pixel: src over dst; a src pixel
\* with alpha 0 leaves dst as it is.
alpha_composite(dst, src) == IF src.alpha = 0 THEN dst ELSE Append(dst, src)

\* make_combined_thumbnail is called with mask_paths (158-160).
CompStart(mask_paths) ==
    /\ cpc \in {"idle", "done", "empty"}
    /\ cpaths' = mask_paths
    /\ cmasks' = <<>>
    /\ ccolors' = <<>>
    /\ overlay' = <<>>
    /\ ck' = 0
    /\ cpc' = "load"

\* lines 162-167: one turn of the loop that loads the masks
CompLoad ==
    /\ cpc = "load"
    /\ ck < Len(cpaths)
    /\ ck' = ck + 1
    /\ cmasks' = IF cpaths[ck + 1].loads
                   THEN Append(cmasks, [path |-> ck + 1, on |-> cpaths[ck + 1].on])
                   ELSE cmasks
    /\ UNCHANGED <<cpaths, ccolors, overlay, cpc>>

\* lines 169-177: "" when no mask loaded; else the colors for len(masks)
\* and a transparent overlay.
CompColors ==
    /\ cpc = "load"
    /\ ck = Len(cpaths)
    /\ IF cmasks = <<>>
         THEN /\ cpc' = "empty"
              /\ UNCHANGED <<ccolors, ck>>
         ELSE /\ cpc' = "blend"
              /\ ccolors' = distinct_colors(Len(cmasks))
              /\ ck' = 0
    /\ overlay' = <<>>
    /\ UNCHANGED <<cpaths, cmasks>>

\* lines 179-183: one turn of the loop over zip(masks, colors)
CompBlend ==
    /\ cpc = "blend"
    /\ ck < Len(cmasks)
    /\ ck' = ck + 1
    /\ overlay' = alpha_composite(overlay,
                      [color |-> ccolors[ck + 1],
                       alpha |-> IF cmasks[ck + 1].on THEN MaskAlpha ELSE 0,
                       path |-> cmasks[ck + 1].path])
    /\ UNCHANGED <<cpaths, cmasks, ccolors, cpc>>

\* lines 185-193: the overlay is put on the image and the thumbnail returned.
CompEnd ==
    /\ cpc = "blend"
    /\ ck = Len(cmasks)
    /\ cpc' = "done"
    /\ UNCHANGED <<cpaths, cmasks, ccolors, overlay, ck>>

NextComp ==
    \/ \E mask_paths \in PathLists : CompStart(mask_paths) /\ UNCHANGED <<storeVars, nsVars, logs, jVars>>
    \/ CompLoad /\ UNCHANGED <<storeVars, nsVars, logs, jVars>>
    \/ CompColors /\ UNCHANGED <<storeVars, nsVars, logs, jVars>>
    \/ CompBlend /\ UNCHANGED <<storeVars, nsVars, logs, jVars>>
    \/ CompEnd /\ UNCHANGED <<storeVars, nsVars, logs, jVars>>

SpecComp == Init /\ [][NextComp]_vars

----------------------------------------------------------------------------
\* The whole service, one request at a time.  DeleteRequest.mask_name is any
\* string (line 66): besides the names of masks, a delete can carry the name
\* of the metadata file or a path that leads to a log file.
OtherNames == {MetaName} \cup LogNames

\* Nothing is being served, and the run can take another request.
Free == Quiescent /\ JQuiescent /\ nOps + nLog < MaxAny

NextAny ==
    \/ \E p \in Procs : Free /\ Start(p) /\ UNCHANGED <<nsVars, jVars, cVars>>
    \/ \E p \in Procs, n \in OtherNames :
          Free /\ DeleteStart(p, n) /\ UNCHANGED <<nsVars, jVars, cVars>>
    \/ \E p \in Procs : Step(p) /\ UNCHANGED <<nsVars, jVars, cVars>>
    \/ \E p \in Procs : Free /\ JStart(p) /\ UNCHANGED <<storeVars, nsVars, cVars>>
    \/ \E p \in Procs : JStep(p) /\ UNCHANGED <<storeVars, nsVars, cVars>>

SpecAny == Init /\ [][NextAny]_vars

----------------------------------------------------------------------------
----------------------------------------------------------------------------
\* C1: whenever no request is running (after any sequence of saves and
\* deletes, completed or cut short by a kill of the process), every id in
\* the metadata index has a backing mask file in the namespace directory.
C1_IndexedIdsHaveFiles == Quiescent => IndexSet \subseteq files

\* C2: save writes the array file before it updates the index.  A save that
\* is interrupted after np.save and before the index holds its name leaves
\* the file in the directory, and no index entry for a new name; and a new
\* name is never in the index without its file, during the save, after an
\* interruption of it, or after it.
C2_ArrayBeforeIndex ==
    /\ \A r \in intr :
          r.op \in {"s_load", "s_open", "s_write"} =>
             /\ r.id \in files
             /\ (r.id \notin Range(base) => r.id \notin IndexSet)
    /\ (batch # <<>> /\ batch[1].op = "save" /\ batch[1].id \in IndexSet \ Range(base))
          => batch[1].id \in files

\* A save of a new name was killed between np.save and the index update:
\* the file is there, the index (which holds another id) does not name it.
C2_Witness ==
    \E r \in intr :
       /\ r.op \in {"s_load", "s_open"}
       /\ r.id \in files \ IndexSet
       /\ Index # <<>>

\* C3: the index is crash-safe.  When the process is killed during a save or
\* a delete, what a later list reads is the index as it was before that
\* request or as it is after it.
C3_IndexCrashSafe ==
    intr # {} => Index \in {base, Serial(base, batch[1])}

\* The requests of the current batch have all run to their responses.
Settled == Quiescent /\ intr = {} /\ batch # <<>>

\* C4: concurrent saves to one collection lose no append: once two or more
\* overlapping saves have all completed, the index holds the id each returned.
C4_NoLostAppend ==
    (Settled /\ Len(batch) >= 2 /\ \A i \in 1..Len(batch) : batch[i].op = "save")
       => \A i \in 1..Len(batch) : batch[i].id \in IndexSet

\* C5: a save of a new id b and a delete of an indexed id a that overlap
\* leave, once both have completed, the index of one of their two serial
\* orders: b is in it and a is not.
C5_SaveDeleteSerial ==
    (/\ Settled
     /\ Len(batch) = 2
     /\ \E i, j \in 1..2 :
           /\ batch[i].op = "save" /\ batch[i].id \notin Range(base)
           /\ batch[j].op = "delete" /\ batch[j].id \in Range(base))
       => Index \in {Serial(Serial(base, batch[1]), batch[2]),
                     Serial(Serial(base, batch[2]), batch[1])}

\* C6: what a list reads while saves and deletes run is a value the index
\* held at some moment between the list's start and its end.
C6_ListReadsSnapshot ==
    [][\A p \in Procs : ListEnd(p) => names[p] \in held[p]]_vars

\* C7: a save that has completed returned an id that was not in the
\* collection when the save began, and made the index one longer (so the
\* ids returned are distinct and the length is saves minus deletes).
C7_SaveAllocatesFreshId ==
    (Settled /\ batch[1].op = "save")
       => /\ batch[1].id \notin Range(base)
          /\ Len(Index) = Len(base) + 1

\* C8: the persisted list of the metadata index never holds an id twice.
C8_NoDuplicateIds ==
    \A i, j \in 1..Len(meta.names) : i # j => meta.names[i] # meta.names[j]

\* A save that drew a name the index already held has completed, alone.
C8_Witness ==
    /\ Settled
    /\ Len(batch) = 1
    /\ batch[1].op = "save"
    /\ batch[1].id \in Range(base)
    /\ batch[1].id \in IndexSet

C10_DeleteIdempotent ==
    (Settled /\ batch[1].op = "delete") =>
       /\ result[batch[1].p] = "deleted"
       /\ batch[1].id \notin IndexSet
       /\ batch[1].id \notin files
       /\ (prev.op = "delete" /\ prev.id = batch[1].id) => Index = base

\* The same id was deleted twice in a row, with another id in the index.
C10_Witness ==
    /\ Settled
    /\ batch[1].op = "delete"
    /\ prev.op = "delete"
    /\ prev.id = batch[1].id
    /\ result[batch[1].p] = "deleted"
    /\ Index # <<>>

\* C11: a completed list returns exactly the indexed ids whose file is there
\* and loads, in index order, as items and as layers of the combined
\* thumbnail; an indexed id without a readable file is left out without an
\* error, and a file the index does not name is never returned.
C11_OrphanSafeListing ==
    (Settled /\ batch[1].op = "list") =>
        /\ result[batch[1].p] = "ok"
        /\ items[batch[1].p] = SelectSeq(Index, LAMBDA n : n \in files /\ n \notin corrupt)
        /\ combined[batch[1].p] = items[batch[1].p]
        /\ Range(items[batch[1].p]) \subseteq IndexSet

\* A list has answered while the second indexed id had a file that does not load.
C11_Witness ==
    /\ Settled /\ batch[1].op = "list"
    /\ Len(Index) = 2 /\ Index[2] \in corrupt
    /\ items[batch[1].p] = <<Index[1]>>

\* C12: two different (image_name, query_id) pairs have different
\* namespaces, and a save or delete on one pair leaves the index and the
\* files of every other pair as they were.
C12_NamespacePerPair ==
    nsReq.op # "none" =>
       \A i \in ImageNames, q \in QueryIds :
          <<i, q>> # <<nsReq.image, nsReq.query>> =>
             /\ mask_dir_for(i, q) # mask_dir_for(nsReq.image, nsReq.query)
             /\ nsStore[mask_dir_for(i, q)] = nsPrev[mask_dir_for(i, q)]

----------------------------------------------------------------------------
\* The journal's contract: the projection of a sequence of events maps an
\* index to the action of the last event that has it.
LastWins(evs) ==
    [i \in Indexes |->
        IF \E k \in 1..Len(evs) : evs[k].index = i
          THEN evs[CHOOSE k \in 1..Len(evs) :
                      /\ evs[k].index = i
                      /\ \A m \in 1..Len(evs) : evs[m].index = i => m <= k].action
          ELSE "none"]

\* A line that is an event record of chunk c.
WellFormed(l, c) ==
    /\ l.t = "object"
    /\ l.chunk_id = c
    /\ l.index \in Indexes
    /\ l.action \in {"done", "skip"}

\* A status request that has been answered.
Replayed(p) == jreq[p].kind = "replay" /\ jpc[p] = "idle"

Count(seq, e) == Cardinality({k \in 1..Len(seq) : seq[k] = e})

\* C13: a log request whose action is neither 'done' nor 'skip' is answered
\* with an error and never reaches append_log, so it writes nothing; every
\* line append has written carries action done or skip.
C13_ActionValidation ==
    /\ \A p \in Procs :
          (jreq[p].kind = "append" /\ jreq[p].action \notin {"done", "skip"})
             => jpc[p] = "idle" /\ jres[p] = "error"
    /\ \A f \in LogPaths : \A k \in 1..Len(logs[f]) : logs[f][k].action \in {"done", "skip"}
    /\ \A c \in ChunkIds : Len(logs[log_path(c)]) <= Len(accepted[c])

\* A request with action 'undo' was refused on a chunk that has events.
C13_Witness ==
    \E p \in Procs :
       /\ jreq[p].kind = "append" /\ jreq[p].action = "undo" /\ jres[p] = "error"
       /\ logs[log_path(jreq[p].chunk_id)] # <<>>

\* C14: an answered status request gives, for each index, the action of the
\* last event appended to its chunk before it read, and no entry for an
\* index without an event; two status requests of one chunk that read with
\* no append between them give the same projection.
C14_LastWriterWins ==
    /\ \A p \in Procs : Replayed(p) =>
          /\ jres[p] = "ok"
          /\ proj[p] = LastWins(seen[p].appends)
    /\ \A p, q \in Procs :
          (Replayed(p) /\ Replayed(q) /\ jreq[p].chunk_id = jreq[q].chunk_id
             /\ seen[p].appends = seen[q].appends) => proj[p] = proj[q]

\* A status request read two events of one index with different actions.
C14_Witness ==
    \E p \in Procs :
       /\ Replayed(p) /\ Len(seen[p].appends) = 2
       /\ seen[p].appends[1].index = seen[p].appends[2].index
       /\ seen[p].appends[1].action # seen[p].appends[2].action
       /\ proj[p][seen[p].appends[2].index] = seen[p].appends[2].action
       /\ \E i \in Indexes : proj[p][i] = "none"

\* C15: whatever malformed lines the file holds, a status request is
\* answered, with the projection of the lines that are event records of
\* its chunk.
C15_MalformedLinesSkipped ==
    \A p \in Procs : Replayed(p) =>
       /\ jres[p] = "ok"
       /\ proj[p] = LastWins(SelectSeq(seen[p].file,
                                       LAMBDA l : WellFormed(l, jreq[p].chunk_id)))

\* C16: the projection a status request of chunk c returns is that of the
\* events in the file of c whose chunk_id is c: an event of another chunk in
\* that file is left out; and an append writes to the file of its own chunk
\* only, so every file is what it held at start followed by the events
\* appended for its chunk.
C16_ChunksIndependent ==
    /\ \A p \in Procs : (Replayed(p) /\ jres[p] = "ok") =>
          proj[p] = LastWins(SelectSeq(seen[p].file,
                                      LAMBDA l : WellFormed(l, jreq[p].chunk_id)))
    /\ \A c \in ChunkIds : logs[log_path(c)] = found[log_path(c)] \o written[c]

\* A status request of chunk 1 was answered from a file that holds an event
\* of chunk 2, after an append for chunk 2.
C16_Witness ==
    \E p \in Procs :
       /\ Replayed(p) /\ jres[p] = "ok" /\ jreq[p].chunk_id = 1
       /\ \E k \in 1..Len(seen[p].file) : WellFormed(seen[p].file[k], 2)
       /\ written[2] # <<>>
       /\ \E i \in Indexes : proj[p][i] # "none"

\* C18: when the appends of a run have all been answered, the file of each
\* chunk holds each accepted event as one whole line, as many times as it
\* was appended, and load_processed reads every one of them.
C18_AppendsDoNotInterleave ==
    JQuiescent => \A c \in ChunkIds :
       /\ Len(logs[log_path(c)]) = Len(accepted[c])
       /\ \A k \in 1..Len(accepted[c]) :
             /\ Count(logs[log_path(c)], accepted[c][k]) = Count(accepted[c], accepted[c][k])
             /\ load_processed(c).results[accepted[c][k].index] # "none"
       /\ ~load_processed(c).raised

\* Two appends to one chunk were between open and write at once; both are answered.
C18_Witness ==
    /\ JQuiescent
    /\ \E c \in overlapped : Len(logs[log_path(c)]) >= 2

\* C17: no step of any request (log, status, refused log, save, delete,
\* list) takes a line out of a log file or changes one: each file after the
\* step begins with what it held before; and the write of an append adds
\* exactly one line to the file of its chunk.
C17_AppendOnly ==
    [][/\ \A f \in LogPaths :
             /\ Len(logs[f]) <= Len(logs'[f])
             /\ SubSeq(logs'[f], 1, Len(logs[f])) = logs[f]
       /\ \A p \in Procs : LogWrite(p) =>
             Len(logs'[log_path(jreq[p].chunk_id)]) = Len(logs[log_path(jreq[p].chunk_id)]) + 1
      ]_vars

\* C20: a delete whose mask_name is not in the index (the name of another
\* file of the directory, such as mask_metadata.json, included) leaves the
\* index as it was.
C20_DeleteOfUnindexedName ==
    (Settled /\ batch[1].op = "delete" /\ batch[1].id \notin Range(base)) => Index = base

----------------------------------------------------------------------------
\* The paths of mask_paths that load, the place of a path among them, and
\* those of them whose mask covers the pixel.
Loaded == {i \in 1..Len(cpaths) : cpaths[i].loads}
Rank(i) == Cardinality({j \in Loaded : j <= i})
Covering == {i \in Loaded : cpaths[i].on}

\* Of the light of layer k, the part (in 1/Full each) that the layers above
\* it, up to layer m, let through.
RECURSIVE Through(_, _)
Through(k, m) == IF k >= m THEN 1 ELSE (Full - overlay[k + 1].alpha) * Through(k + 1, m)

RECURSIVE Pow(_)
Pow(n) == IF n = 0 THEN 1 ELSE Full * Pow(n - 1)

\* C19: in the finished overlay the layers at a pixel are those of the
\* loaded masks that cover it, in the order of mask_paths (index order),
\* bottom to top; the i-th loaded mask has the i-th of the colors made for
\* N = the number of loaded masks; the top layer is that of the last
\* covering mask, and its share of the pixel's color is larger than that
\* of every layer under it.
C19_LayersInIndexOrder ==
    cpc = "done" =>
       /\ Len(ccolors) = Cardinality(Loaded)
       /\ Len(overlay) = Cardinality(Covering)
       /\ \A k \in 1..Len(overlay) :
             /\ overlay[k].path \in Covering
             /\ overlay[k].color = distinct_colors(Cardinality(Loaded))[Rank(overlay[k].path)]
       /\ \A k, m \in 1..Len(overlay) : k < m => overlay[k].path < overlay[m].path
       /\ Covering # {} =>
             /\ \A i \in Covering : i <= overlay[Len(overlay)].path
             /\ \A k \in 1..(Len(overlay) - 1) :
                   overlay[Len(overlay)].alpha * Pow(Len(overlay) - k)
                      > overlay[k].alpha * Through(k, Len(overlay))

\* Three paths, the first of which does not load; the other two masks cover
\* the pixel, and the top layer has the second of two colors.
C19_Witness ==
    /\ cpc = "done"
    /\ Len(cpaths) = 3 /\ ~cpaths[1].loads
    /\ cpaths[2].loads /\ cpaths[2].on /\ cpaths[3].loads /\ cpaths[3].on
    /\ Len(overlay) = 2
    /\ overlay[1].color = <<255, 50, 50>>
    /\ overlay[2].color = <<50, 255, 255>>

====
